---- MODULE Spec2Model ----
(***************************************************************************)
(* Model of the portfolio backend: the storage layer (server/storage.ts),  *)
(* the table schema (shared schema), the request handlers of the auth and  *)
(* admin routes, and the visitor aggregator.  Every await of a handler is  *)
(* one step of the request, so that concurrent requests interleave exactly *)
(* where the code yields.  Spec runs the auth and admin requests,          *)
(* VisitSpec the visit recordings, StatsSpec the calls of getVisitorStats  *)
(* on stored visitor tables, StoreSpec the requests that write users or    *)
(* messages, FaultSpec the same with store calls that may fail,            *)
(* VisitorStoreSpec the visitor operations of the storage called directly, *)
(* LiveStatsSpec getVisitorStats while visits are recorded.                *)
(***************************************************************************)
EXTENDS Integers, Sequences, FiniteSets, TLC

(***************************************************************************)
(* Bounds of the model.                                                    *)
(***************************************************************************)
\* number of requests that arrive in one behaviour
MaxRequests == 2

\* request slots that run concurrently
Slots == {1, 2}

\* inputs of the requests; "" is the missing (falsy) field
Usernames == {"", "alice", "bobby"}
Emails == {"", "a@x.com", "b@x.com"}
Passwords == {"", "abc", "secret1", "secret2"}
\* 0 is the missing (falsy) userId
UserIds == {0, 1, 2}
\* values crypto.randomBytes can return
Salts == {"s1", "s2"}

(***************************************************************************)
(* Nullable values: a nullable column or result is <<>> (null) or <<v>>.   *)
(***************************************************************************)
Null == <<>>
Some(v) == <<v>>

(***************************************************************************)
(* Password hashing helpers (storage.ts 8-22).  PBKDF2 is modelled as a    *)
(* deterministic injective function of password and salt whose output is   *)
(* never a plaintext.                                                      *)
(***************************************************************************)
HashPassword_IgnoresPassword(password, salt) == <<"pbkdf2", salt>>

HashPassword(password, salt) == <<"pbkdf2", password, salt>>

VerifyPassword(password, salt, storedHash) ==
    LET hash == HashPassword(password, salt)
    IN  hash = storedHash

(***************************************************************************)
(* The state.                                                              *)
(***************************************************************************)
VARIABLES
    users,          \* table users: set of rows
    messages,       \* table messages: set of rows
    visitors,       \* table visitors: set of rows
    nextUserId,     \* serial of users.id
    nextMessageId,  \* serial of messages.id
    nextVisitorId,  \* serial of visitors.id
    now,            \* the clock, in arrivals: it advances when a request arrives
    pc,             \* position of the request in each slot
    args,           \* the request of each slot: its route and body
    loc,            \* the handler's local variables
    resp,           \* the response sent by each slot's request
    started,        \* number of requests started so far
    plain,          \* history: the plaintext each user's hash was made from
    onArrival,      \* history: what the request's keys met in the store on arrival
    sightings       \* history: the updateVisitor calls made on each visitor id

db == <<users, messages, visitors>>
serials == <<nextUserId, nextMessageId, nextVisitorId>>
vars == <<users, messages, visitors, nextUserId, nextMessageId, nextVisitorId,
          now, pc, args, loc, resp, started, plain, onArrival, sightings>>

(***************************************************************************)
(* Schema (shared schema): rows and column defaults.                       *)
(***************************************************************************)
UserRow(id, username, email, password, salt, role, t) ==
    [id |-> id, username |-> username, email |-> email,
     password |-> password, salt |-> salt, role |-> role,
     isActive |-> TRUE, createdAt |-> t, lastLogin |-> Null]

\* the unique constraints of users.username and users.email
UniqueViolation_None(table, username, email) == FALSE

UniqueViolation(table, username, email) ==
    \E u \in table : u.username = username \/ u.email = email

(***************************************************************************)
(* Storage reads (storage.ts 59-72).  "const [user] = rows" takes the      *)
(* first row of the result; the result has at most one row here.           *)
(***************************************************************************)
First(rows) == IF rows = {} THEN Null ELSE Some(CHOOSE u \in rows : \A v \in rows : u.id <= v.id)

GetUser(table, id) == First({u \in table : u.id = id})

GetUserByUsername(table, username) == First({u \in table : u.username = username})

GetUserByEmail(table, email) == First({u \in table : u.email = email})

(***************************************************************************)
(* verifyUser (storage.ts 94-112).                                         *)
(***************************************************************************)
VerifyUser_IgnoresActive(table, username, password) ==
    LET user == GetUserByUsername(table, username)
    IN  IF user = Null THEN Null
        ELSE IF VerifyPassword(password, user[1].salt, user[1].password)
             THEN user ELSE Null

VerifyUser(table, username, password) ==
    LET user == GetUserByUsername(table, username)
    IN  IF user = Null \/ ~user[1].isActive THEN Null
        ELSE IF VerifyPassword(password, user[1].salt, user[1].password)
             THEN user ELSE Null

(***************************************************************************)
(* Responses: the status and the JSON body of res.status(..).json(..).     *)
(***************************************************************************)
Reply(status, success, message) ==
    [status |-> status, success |-> success, message |-> message]

ReplyUser(status, success, message, user) ==
    [status |-> status, success |-> success, message |-> message, user |-> user]

\* const { password: _, salt: __, ...userWithoutSensitiveData } = user
WithoutSensitiveData_Keeps(user) == user

WithoutSensitiveData(user) ==
    [f \in DOMAIN user \ {"password", "salt"} |-> user[f]]

RegisterMissing == Reply(400, FALSE, "Username, email, dan password harus diisi")
UsernameTaken == Reply(400, FALSE, "Username sudah digunakan")
EmailTaken == Reply(400, FALSE, "Email sudah digunakan")
RegisterFailed == Reply(500, FALSE, "Gagal melakukan registrasi")
LoginRejected == Reply(401, FALSE, "Username atau password salah")
LoginFailed == Reply(500, FALSE, "Gagal melakukan login")
PasswordMissing == Reply(400, FALSE, "User ID dan password baru harus diisi")
PasswordTooShort == Reply(400, FALSE, "Password minimal 6 karakter")
PasswordUpdated == Reply(200, TRUE, "Password berhasil diperbarui")
UserNotFound == Reply(404, FALSE, "User tidak ditemukan")
PasswordFailed == Reply(500, FALSE, "Gagal memperbarui password")

(***************************************************************************)
(* loginUserSchema (shared schema 53-56) and fromZodError: the issues of   *)
(* a login body, in the order of the schema's fields.                      *)
(***************************************************************************)
MinUsernameLen == 3
MinPasswordLen == 6

LoginIssues(username, password) ==
    (IF Len(username) < MinUsernameLen
       THEN <<"Username minimal 3 karakter at \"username\"">> ELSE <<>>)
    \o
    (IF Len(password) < MinPasswordLen
       THEN <<"Password minimal 6 karakter at \"password\"">> ELSE <<>>)

\* fromZodError(error).message
ValidationMessage(issues) ==
    "Validation error: " \o issues[1] \o
    (IF Len(issues) > 1 THEN "; " \o issues[2] ELSE "")

LoginInvalid(issues) == Reply(400, FALSE, ValidationMessage(issues))

(***************************************************************************)
(* The database when the server starts: empty, or holding rows written by  *)
(* an earlier run (one user, active or deactivated, one message and one    *)
(* visitor).                                                               *)
(***************************************************************************)
SeedUser(active) ==
    [UserRow(1, "alice", "a@x.com", HashPassword("secret1", "s1"), "s1", "user", 0)
       EXCEPT !.isActive = active]

SeedMessage ==
    [id |-> 1, name |-> "Bob", email |-> "bob@x.com", subject |-> "Hi",
     message |-> "Hello", createdAt |-> 0]

VisitorColumns ==
    {"ipAddress", "userAgent", "referrer", "language", "country", "city",
     "device", "browser", "os"}

VisitorRow_CountsFromZero(id, values, t) ==
    [f \in VisitorColumns \cup {"id", "isUnique", "visitCount", "lastVisit", "firstVisit"} |->
        IF f \in DOMAIN values THEN values[f]
        ELSE CASE f = "id" -> id
               [] f = "isUnique" -> TRUE
               [] f = "visitCount" -> 0
               [] f = "lastVisit" -> t
               [] f = "firstVisit" -> t
               [] OTHER -> Null]

\* a row of visitors: the given columns, the others at the column default
VisitorRow(id, values, t) ==
    [f \in VisitorColumns \cup {"id", "isUnique", "visitCount", "lastVisit", "firstVisit"} |->
        IF f \in DOMAIN values THEN values[f]
        ELSE CASE f = "id" -> id
               [] f = "isUnique" -> TRUE
               [] f = "visitCount" -> 1
               [] f = "lastVisit" -> t
               [] f = "firstVisit" -> t
               [] OTHER -> Null]

SeedVisitor == VisitorRow(1, [ipAddress |-> Some("10.0.0.1"), country |-> Some("US")], 0)

Idle == [route |-> "none"]
NoReply == [status |-> 0]
NoLocals ==
    [user |-> Null, result |-> Null, error |-> "", visitor |-> Null, stats |-> << >>,
     date |-> Null]
NothingMet == [username |-> FALSE, email |-> FALSE]

InitRequests ==
    /\ pc = [r \in Slots |-> "idle"]
    /\ args = [r \in Slots |-> Idle]
    /\ loc = [r \in Slots |-> NoLocals]
    /\ resp = [r \in Slots |-> NoReply]
    /\ started = 0
    /\ now = 0
    /\ onArrival = [r \in Slots |-> NothingMet]
    /\ sightings = << >>

InitEmpty ==
    /\ users = {} /\ messages = {} /\ visitors = {}
    /\ nextUserId = 1 /\ nextMessageId = 1 /\ nextVisitorId = 1
    /\ plain = << >>

InitSeeded ==
    /\ \E active \in BOOLEAN : users = {SeedUser(active)}
    /\ messages = {SeedMessage} /\ visitors = {SeedVisitor}
    /\ nextUserId = 2 /\ nextMessageId = 2 /\ nextVisitorId = 2
    /\ plain = (1 :> "secret1")

Init == InitRequests /\ (InitEmpty \/ InitSeeded)

(***************************************************************************)
(* A request enters a free slot.                                           *)
(***************************************************************************)
\* a request enters the first slot that holds no running request
Running(r) == pc[r] \notin {"idle", "done"}

Free(r) ==
    /\ ~Running(r)
    /\ \A q \in Slots : q < r => Running(q)
    /\ started < MaxRequests

\* locals: what the called function has computed when it reaches its first await
EnterWith(r, request, position, locals) ==
    /\ now' = now + 1
    /\ args' = [args EXCEPT ![r] = request]
    /\ loc' = [loc EXCEPT ![r] = locals]
    /\ pc' = [pc EXCEPT ![r] = position]
    /\ started' = started + 1
    /\ onArrival' = [onArrival EXCEPT ![r] =
          [username |-> "username" \in DOMAIN request
                          /\ \E u \in users : u.username = request.username,
           email |-> "email" \in DOMAIN request
                          /\ \E u \in users : u.email = request.email]]

Enter(r, request, position) == EnterWith(r, request, position, NoLocals)

Send(r, reply) ==
    /\ resp' = [resp EXCEPT ![r] = reply]
    /\ pc' = [pc EXCEPT ![r] = "done"]

Goto(r, position) ==
    /\ pc' = [pc EXCEPT ![r] = position]
    /\ UNCHANGED resp

(***************************************************************************)
(* POST /api/auth/register (routes 258-310) with createUser (storage.ts    *)
(* 74-92).                                                                 *)
(***************************************************************************)
RegisterBegin(r, username, email, password) ==
    /\ Free(r)
    /\ Enter(r, [route |-> "register", username |-> username, email |-> email,
                 password |-> password],
             IF username = "" \/ email = "" \/ password = ""
               THEN "done" ELSE "register_username")
    /\ resp' = [resp EXCEPT ![r] =
                  IF username = "" \/ email = "" \/ password = ""
                    THEN RegisterMissing ELSE NoReply]
    /\ UNCHANGED <<db, serials, plain, sightings>>

RegisterCheckUsername_Skips(r) ==
    /\ pc[r] = "register_username"
    /\ Goto(r, "register_email")
    /\ UNCHANGED <<db, serials, now, args, loc, started, onArrival, plain, sightings>>

RegisterCheckUsername(r) ==
    /\ pc[r] = "register_username"
    /\ LET existingUser == GetUserByUsername(users, args[r].username)
       IN  IF existingUser # Null
             THEN Send(r, UsernameTaken)
             ELSE Goto(r, "register_email")
    /\ UNCHANGED <<db, serials, now, args, loc, started, onArrival, plain, sightings>>

RegisterCheckEmail(r) ==
    /\ pc[r] = "register_email"
    /\ LET existingEmail == GetUserByEmail(users, args[r].email)
       IN  IF existingEmail # Null
             THEN Send(r, EmailTaken)
             ELSE Goto(r, "register_create")
    /\ UNCHANGED <<db, serials, now, args, loc, started, onArrival, plain, sightings>>

\* createUser: the insert takes a value of the serial also when the unique
\* constraint rejects the row; the rejection is thrown to the handler's catch
RegisterCreateUser(r) ==
    /\ pc[r] = "register_create"
    /\ \E salt \in Salts :
         LET hashedPassword == HashPassword(args[r].password, salt)
             user == UserRow(nextUserId, args[r].username, args[r].email,
                             hashedPassword, salt, "user", now)
         IN  IF UniqueViolation(users, args[r].username, args[r].email)
               THEN /\ loc' = [loc EXCEPT ![r].error = "unique_violation"]
                    /\ Send(r, RegisterFailed)
                    /\ UNCHANGED <<users, plain, sightings>>
               ELSE /\ users' = users \cup {user}
                    /\ plain' = (nextUserId :> args[r].password) @@ plain
                    /\ loc' = [loc EXCEPT ![r].user = Some(user)]
                    /\ Send(r, ReplyUser(201, TRUE, "Registrasi berhasil",
                                         WithoutSensitiveData(user)))
    /\ nextUserId' = nextUserId + 1
    /\ UNCHANGED <<messages, visitors, nextMessageId, nextVisitorId, now, args, started, onArrival, sightings>>

(***************************************************************************)
(* POST /api/auth/login (routes 313-354) with verifyUser and               *)
(* updateLastLogin (storage.ts 94-121).                                    *)
(***************************************************************************)
LoginBegin(r, username, password) ==
    /\ Free(r)
    /\ LET issues == LoginIssues(username, password)
       IN  /\ Enter(r, [route |-> "login", username |-> username, password |-> password],
                    IF issues # <<>> THEN "done" ELSE "login_verify")
           /\ resp' = [resp EXCEPT ![r] =
                         IF issues # <<>> THEN LoginInvalid(issues) ELSE NoReply]
    /\ UNCHANGED <<db, serials, plain, sightings>>

LoginVerify_TellsUnknown(r) ==
    /\ pc[r] = "login_verify"
    /\ LET user == VerifyUser(users, args[r].username, args[r].password)
       IN  IF user = Null
             THEN /\ Send(r, IF GetUserByUsername(users, args[r].username) = Null
                               THEN Reply(401, FALSE, "Username tidak ditemukan")
                               ELSE LoginRejected)
                  /\ UNCHANGED loc
             ELSE /\ loc' = [loc EXCEPT ![r].user = user, ![r].date = Some(now)]
                  /\ Goto(r, "login_stamp")
    /\ UNCHANGED <<db, serials, now, args, started, onArrival, plain, sightings>>

LoginVerify(r) ==
    /\ pc[r] = "login_verify"
    /\ LET user == VerifyUser(users, args[r].username, args[r].password)
       IN  IF user = Null
             THEN /\ Send(r, LoginRejected)
                  /\ UNCHANGED loc
             ELSE /\ loc' = [loc EXCEPT ![r].user = user, ![r].date = Some(now)]
                  /\ Goto(r, "login_stamp")
    /\ UNCHANGED <<db, serials, now, args, started, onArrival, plain, sightings>>

LoginUpdateLastLogin_StampsAll(r) ==
    /\ pc[r] = "login_stamp"
    /\ LET user == loc[r].user[1]
       IN  /\ users' = {[u EXCEPT !.lastLogin = loc[r].date] : u \in users}
           /\ Send(r, ReplyUser(200, TRUE, "Login berhasil", WithoutSensitiveData(user)))
    /\ UNCHANGED <<messages, visitors, serials, now, args, loc, started, onArrival, plain, sightings>>

\* updateLastLogin, then the response built from the row verifyUser returned;
\* the statement carries the new Date() taken when updateLastLogin was called
LoginUpdateLastLogin(r) ==
    /\ pc[r] = "login_stamp"
    /\ LET user == loc[r].user[1]
       IN  /\ users' = {IF u.id = user.id THEN [u EXCEPT !.lastLogin = loc[r].date] ELSE u
                          : u \in users}
           /\ Send(r, ReplyUser(200, TRUE, "Login berhasil", WithoutSensitiveData(user)))
    /\ UNCHANGED <<messages, visitors, serials, now, args, loc, started, onArrival, plain, sightings>>

(***************************************************************************)
(* POST /api/auth/update-password (routes 534-574) with updateUserPassword *)
(* (storage.ts 123-149).                                                   *)
(***************************************************************************)
UpdatePasswordBegin(r, userId, newPassword) ==
    /\ Free(r)
    /\ LET reply == IF userId = 0 \/ newPassword = "" THEN PasswordMissing
                    ELSE IF Len(newPassword) < MinPasswordLen THEN PasswordTooShort
                    ELSE NoReply
       IN  /\ Enter(r, [route |-> "update-password", userId |-> userId,
                        newPassword |-> newPassword],
                    IF reply # NoReply THEN "done" ELSE "password_find")
           /\ resp' = [resp EXCEPT ![r] = reply]
    /\ UNCHANGED <<db, serials, plain, sightings>>

UpdatePasswordFind_NoCheck(r) ==
    /\ pc[r] = "password_find"
    /\ loc' = [loc EXCEPT ![r].user = GetUser(users, args[r].userId)]
    /\ Goto(r, "password_write")
    /\ UNCHANGED <<db, serials, now, args, started, onArrival, plain, sightings>>

\* updateUserPassword: getUser; false when there is no such user
UpdatePasswordFind(r) ==
    /\ pc[r] = "password_find"
    /\ LET user == GetUser(users, args[r].userId)
       IN  IF user = Null
             THEN /\ loc' = [loc EXCEPT ![r].result = Some(FALSE)]
                  /\ Send(r, UserNotFound)
             ELSE /\ loc' = [loc EXCEPT ![r].user = user]
                  /\ Goto(r, "password_write")
    /\ UNCHANGED <<db, serials, now, args, started, onArrival, plain, sightings>>

UpdatePasswordWrite_KeepsSalt(r) ==
    /\ pc[r] = "password_write"
    /\ \E salt \in Salts :
         LET hashedPassword == HashPassword(args[r].newPassword, salt)
         IN  /\ users' = {IF u.id = args[r].userId
                            THEN [u EXCEPT !.password = hashedPassword]
                            ELSE u : u \in users}
             /\ plain' = [plain EXCEPT ![args[r].userId] = args[r].newPassword]
    /\ loc' = [loc EXCEPT ![r].result = Some(TRUE)]
    /\ Send(r, PasswordUpdated)
    /\ UNCHANGED <<messages, visitors, serials, now, args, started, onArrival, sightings>>

\* updateUserPassword: one update sets the new hash and the new salt
UpdatePasswordWrite(r) ==
    /\ pc[r] = "password_write"
    /\ \E salt \in Salts :
         LET hashedPassword == HashPassword(args[r].newPassword, salt)
         IN  /\ users' = {IF u.id = args[r].userId
                            THEN [u EXCEPT !.password = hashedPassword, !.salt = salt]
                            ELSE u : u \in users}
             /\ plain' = [plain EXCEPT ![args[r].userId] = args[r].newPassword]
    /\ loc' = [loc EXCEPT ![r].result = Some(TRUE)]
    /\ Send(r, PasswordUpdated)
    /\ UNCHANGED <<messages, visitors, serials, now, args, started, onArrival, sightings>>

(***************************************************************************)
(* GET /api/admin/users (routes 475-506): the listed columns of every      *)
(* user, by descending id.                                                 *)
(***************************************************************************)
RECURSIVE ByIdDesc(_)
ByIdDesc(rows) ==
    IF rows = {} THEN <<>>
    ELSE LET top == CHOOSE u \in rows : \A v \in rows : v.id <= u.id
         IN  <<top>> \o ByIdDesc(rows \ {top})

ListedColumns(user) ==
    [f \in {"id", "username", "email", "role", "isActive", "createdAt", "lastLogin"}
       |-> user[f]]

AdminUsersBegin(r) ==
    /\ Free(r)
    /\ Enter(r, [route |-> "admin-users"], "admin_query")
    /\ resp' = [resp EXCEPT ![r] = NoReply]
    /\ UNCHANGED <<db, serials, plain, sightings>>

AdminUsers(r) ==
    /\ pc[r] = "admin_query"
    /\ LET allUsers == ByIdDesc({ListedColumns(u) : u \in users})
       IN  Send(r, [status |-> 200, success |-> TRUE, users |-> allUsers])
    /\ UNCHANGED <<db, serials, now, args, loc, started, onArrival, plain, sightings>>

AuthNext ==
    \/ \E r \in Slots, username \in Usernames, email \in Emails, password \in Passwords :
         RegisterBegin(r, username, email, password)
    \/ \E r \in Slots : RegisterCheckUsername(r)
    \/ \E r \in Slots : RegisterCheckEmail(r)
    \/ \E r \in Slots : RegisterCreateUser(r)
    \/ \E r \in Slots, username \in Usernames, password \in Passwords :
         LoginBegin(r, username, password)
    \/ \E r \in Slots : LoginVerify(r)
    \/ \E r \in Slots : LoginUpdateLastLogin(r)
    \/ \E r \in Slots, userId \in UserIds, newPassword \in Passwords :
         UpdatePasswordBegin(r, userId, newPassword)
    \/ \E r \in Slots : UpdatePasswordFind(r)
    \/ \E r \in Slots : UpdatePasswordWrite(r)
    \/ \E r \in Slots : AdminUsersBegin(r)
    \/ \E r \in Slots : AdminUsers(r)

Next == AuthNext

Spec == Init /\ [][Next]_vars

(***************************************************************************)
(* POST /api/contact (routes 356-383) with insertMessageSchema (shared     *)
(* schema 58-63) and createMessage (storage.ts 151-157).                   *)
(***************************************************************************)
MessageFields == <<"name", "email", "subject", "message">>

ContactBodies ==
    {[name |-> "Ann", email |-> "ann@x.com", subject |-> "Hello", message |-> "Hi there"],
     [name |-> "Ann", email |-> "ann@x.com", subject |-> "Hello"]}

\* insertMessageSchema.parse: every picked column is required
RECURSIVE MessageIssuesFrom(_, _)
MessageIssuesFrom(body, i) ==
    IF i > Len(MessageFields) THEN << >>
    ELSE (IF MessageFields[i] \in DOMAIN body THEN << >>
          ELSE <<"Required at \"" \o MessageFields[i] \o "\"">>)
         \o MessageIssuesFrom(body, i + 1)

MessageIssues(body) == MessageIssuesFrom(body, 1)

MessageInvalid(issues) == Reply(400, FALSE, ValidationMessage(issues))

MessageSent(message) ==
    [status |-> 201, success |-> TRUE, message |-> "Message sent successfully",
     data |-> message]

\* a row of messages: the given columns, id from the serial, createdAt now
MessageRow(id, insertMessage, t) ==
    [f \in {"id", "name", "email", "subject", "message", "createdAt"} |->
        CASE f = "id" -> id
          [] f = "createdAt" -> t
          [] OTHER -> insertMessage[f]]

ContactBegin(r, body) ==
    /\ Free(r)
    /\ LET issues == MessageIssues(body)
       IN  /\ Enter(r, [route |-> "contact", body |-> body],
                    IF issues # <<>> THEN "done" ELSE "contact_create")
           /\ resp' = [resp EXCEPT ![r] =
                         IF issues # <<>> THEN MessageInvalid(issues) ELSE NoReply]
    /\ UNCHANGED <<db, serials, plain, sightings>>

ContactCreate_Replaces(r) ==
    /\ pc[r] = "contact_create"
    /\ LET message == MessageRow(nextMessageId, args[r].body, now)
       IN  /\ messages' = {message}
           /\ Send(r, MessageSent(message))
    /\ nextMessageId' = nextMessageId + 1
    /\ UNCHANGED <<users, visitors, nextUserId, nextVisitorId, now, args, loc, started,
                   onArrival, plain, sightings>>

\* createMessage: insert(messages).values(insertMessage).returning()
ContactCreate(r) ==
    /\ pc[r] = "contact_create"
    /\ LET message == MessageRow(nextMessageId, args[r].body, now)
       IN  /\ messages' = messages \cup {message}
           /\ Send(r, MessageSent(message))
    /\ nextMessageId' = nextMessageId + 1
    /\ UNCHANGED <<users, visitors, nextUserId, nextVisitorId, now, args, loc, started,
                   onArrival, plain, sightings>>

\* the requests that write users or messages, with well-formed bodies
StoreNext ==
    \/ \E r \in Slots, username \in {"alice", "bobby"}, email \in {"a@x.com", "b@x.com"} :
         RegisterBegin(r, username, email, "secret1")
    \/ \E r \in Slots : RegisterCheckUsername(r)
    \/ \E r \in Slots : RegisterCheckEmail(r)
    \/ \E r \in Slots : RegisterCreateUser(r)
    \/ \E r \in Slots, password \in {"secret1", "secret2"} : LoginBegin(r, "alice", password)
    \/ \E r \in Slots : LoginVerify(r)
    \/ \E r \in Slots : LoginUpdateLastLogin(r)
    \/ \E r \in Slots, userId \in {1, 2} : UpdatePasswordBegin(r, userId, "secret2")
    \/ \E r \in Slots : UpdatePasswordFind(r)
    \/ \E r \in Slots : UpdatePasswordWrite(r)
    \/ \E r \in Slots, body \in ContactBodies : ContactBegin(r, body)
    \/ \E r \in Slots : ContactCreate(r)

StoreSpec == Init /\ [][StoreNext]_vars

(***************************************************************************)
(* Store failures.  Any awaited store call may throw instead of running    *)
(* its statement.  The register and login handlers catch it in their own   *)
(* catch block (routes 303-309, 347-352); updateUserPassword catches it    *)
(* itself and returns false (storage.ts 145-148), which the handler        *)
(* answers as it answers a missing user (routes 562-566).                  *)
(***************************************************************************)
StoreFails(r, position, reply) ==
    /\ pc[r] = position
    /\ loc' = [loc EXCEPT ![r].error = "store_failure"]
    /\ Send(r, reply)
    /\ UNCHANGED <<db, serials, now, args, started, onArrival, plain, sightings>>

RegisterCheckUsernameFails(r) == StoreFails(r, "register_username", RegisterFailed)

RegisterCheckEmailFails(r) == StoreFails(r, "register_email", RegisterFailed)

RegisterCreateUserFails(r) == StoreFails(r, "register_create", RegisterFailed)

LoginVerifyFails(r) == StoreFails(r, "login_verify", LoginFailed)

LoginUpdateLastLoginFails(r) == StoreFails(r, "login_stamp", LoginFailed)

UpdateUserPasswordFails(r, position) ==
    /\ pc[r] = position
    /\ loc' = [loc EXCEPT ![r].error = "store_failure", ![r].result = Some(FALSE)]
    /\ Send(r, UserNotFound)
    /\ UNCHANGED <<db, serials, now, args, started, onArrival, plain, sightings>>

UpdatePasswordFindFails(r) == UpdateUserPasswordFails(r, "password_find")

UpdatePasswordWriteFails(r) == UpdateUserPasswordFails(r, "password_write")

MessageFailed == Reply(500, FALSE, "Failed to send message")

ContactCreateFails(r) == StoreFails(r, "contact_create", MessageFailed)

FaultNext ==
    \/ StoreNext
    \/ \E r \in Slots : RegisterCheckUsernameFails(r)
    \/ \E r \in Slots : RegisterCheckEmailFails(r)
    \/ \E r \in Slots : RegisterCreateUserFails(r)
    \/ \E r \in Slots : LoginVerifyFails(r)
    \/ \E r \in Slots : LoginUpdateLastLoginFails(r)
    \/ \E r \in Slots : UpdatePasswordFindFails(r)
    \/ \E r \in Slots : UpdatePasswordWriteFails(r)
    \/ \E r \in Slots : ContactCreateFails(r)

FaultSpec == Init /\ [][FaultNext]_vars

(***************************************************************************)
(* Visitor storage (storage.ts 169-210).  An InsertVisitor value gives any *)
(* of the descriptive columns, each a value or null.                       *)
(***************************************************************************)
IpAddresses == {Null, Some("10.0.0.1"), Some("10.0.0.2")}

Observations ==
    UNION {{[ipAddress |-> ip],
            [ipAddress |-> ip, country |-> Some("US")],
            [ipAddress |-> ip, country |-> Some("DE"), device |-> Some("mobile")]}
           : ip \in IpAddresses}

\* where eq(visitors.ipAddress, ipAddress): null equals nothing
VisitorsByIp(table, ipAddress) ==
    IF ipAddress = Null THEN {} ELSE {v \in table : v.ipAddress = ipAddress}

\* createVisitor: insert(visitors).values(insertVisitor).returning()
CreateVisitor(insertVisitor, id, t) == VisitorRow(id, insertVisitor, t)

UpdateVisitor_KeepsCount(row, visitorData, t) ==
    [f \in DOMAIN row |->
        CASE f = "lastVisit" -> t
          [] f \in DOMAIN visitorData -> visitorData[f]
          [] OTHER -> row[f]]

UpdateVisitor_SameInstantOnce(row, visitorData, t) ==
    [f \in DOMAIN row |->
        CASE f = "lastVisit" -> t
          [] f = "visitCount" -> IF row.lastVisit = t THEN row.visitCount
                                 ELSE row.visitCount + 1
          [] f \in DOMAIN visitorData -> visitorData[f]
          [] OTHER -> row[f]]

UpdateVisitor_DropsOmitted(row, visitorData, t) ==
    [f \in DOMAIN row |->
        CASE f = "lastVisit" -> t
          [] f = "visitCount" -> row.visitCount + 1
          [] f \in DOMAIN visitorData -> visitorData[f]
          [] f \in VisitorColumns -> Null
          [] OTHER -> row[f]]

UpdateVisitor_ClearsUnique(row, visitorData, t) ==
    [f \in DOMAIN row |->
        CASE f = "lastVisit" -> t
          [] f = "visitCount" -> row.visitCount + 1
          [] f = "isUnique" -> FALSE
          [] f \in DOMAIN visitorData -> visitorData[f]
          [] OTHER -> row[f]]

UpdateVisitor_ResetsCount(row, visitorData, t) ==
    [f \in DOMAIN row |->
        CASE f = "lastVisit" -> t
          [] f = "visitCount" -> 1
          [] f \in DOMAIN visitorData -> visitorData[f]
          [] OTHER -> row[f]]

\* updateVisitor: set({...visitorData, lastVisit: new Date(), visitCount: visitCount + 1})
UpdateVisitor(row, visitorData, t) ==
    [f \in DOMAIN row |->
        CASE f = "lastVisit" -> t
          [] f = "visitCount" -> row.visitCount + 1
          [] f \in DOMAIN visitorData -> visitorData[f]
          [] OTHER -> row[f]]

(***************************************************************************)
(* RecordVisit (the aggregator of the specification, section 4.2): look    *)
(* the visitor up by IP address, then create or update.                    *)
(***************************************************************************)
VisitRecorded == [status |-> 200, success |-> TRUE]

RecordVisitBegin(r, observation) ==
    /\ Free(r)
    /\ Enter(r, [route |-> "visit", observation |-> observation], "visit_lookup")
    /\ resp' = [resp EXCEPT ![r] = NoReply]
    /\ UNCHANGED <<db, serials, plain, sightings>>

\* getVisitorByIp: "const [visitor] = rows" takes whichever row comes first
RecordVisitLookup(r) ==
    /\ pc[r] = "visit_lookup"
    /\ LET rows == VisitorsByIp(visitors, args[r].observation.ipAddress)
       IN  IF rows = {}
             THEN /\ Goto(r, "visit_create")
                  /\ UNCHANGED loc
             ELSE /\ \E visitor \in rows :
                       loc' = [loc EXCEPT ![r].visitor = Some(visitor), ![r].date = Some(now)]
                  /\ Goto(r, "visit_update")
    /\ UNCHANGED <<db, serials, now, args, started, onArrival, plain, sightings>>

RecordVisitCreate(r) ==
    /\ pc[r] = "visit_create"
    /\ LET visitor == CreateVisitor(args[r].observation, nextVisitorId, now)
       IN  /\ visitors' = visitors \cup {visitor}
           /\ loc' = [loc EXCEPT ![r].visitor = Some(visitor)]
    /\ nextVisitorId' = nextVisitorId + 1
    /\ Send(r, VisitRecorded)
    /\ UNCHANGED <<sightings, users, messages, nextUserId, nextMessageId, now, args, started,
                   onArrival, plain>>

RecordVisitUpdate(r) ==
    /\ pc[r] = "visit_update"
    /\ LET id == loc[r].visitor[1].id
       IN  /\ visitors' = {IF v.id = id
                             THEN UpdateVisitor(v, args[r].observation, loc[r].date[1])
                             ELSE v : v \in visitors}
           /\ loc' = [loc EXCEPT ![r].result = First({v \in visitors' : v.id = id})]
           /\ sightings' = IF id \in DOMAIN sightings
                              THEN [sightings EXCEPT ![id] = @ + 1]
                              ELSE (id :> 1) @@ sightings
    /\ Send(r, VisitRecorded)
    /\ UNCHANGED <<users, messages, serials, now, args, started, onArrival, plain>>

VisitNext ==
    \/ \E r \in Slots, observation \in Observations : RecordVisitBegin(r, observation)
    \/ \E r \in Slots : RecordVisitLookup(r)
    \/ \E r \in Slots : RecordVisitCreate(r)
    \/ \E r \in Slots : RecordVisitUpdate(r)

VisitSpec == Init /\ [][VisitNext]_vars

(***************************************************************************)
(* Visitor statistics (storage.ts 212-326).  getVisitorStats runs eight    *)
(* queries one after the other; stats holds its local constants so far.    *)
(* The clock counts TicksPerDay ticks to the day; a count is the number    *)
(* the query computes.                                                     *)
(***************************************************************************)
TicksPerDay == 2
WeekDays == 7
TopLimit == 10

\* DATE(t): the day a timestamp falls on
DateOf(t) == t \div TicksPerDay

\* count(*) where eq(visitors.isUnique, true)
CountUnique_All(table) == Cardinality(table)

CountUnique(table) == Cardinality({v \in table : v.isUnique = TRUE})

CountToday_All(table, t) == Cardinality(table)

\* count(*) where DATE(last_visit) = CURRENT_DATE
CountToday(table, t) == Cardinality({v \in table : DateOf(v.lastVisit) = DateOf(t)})

\* lastWeek.setDate(lastWeek.getDate() - 7)
LastWeek(t) == t - WeekDays * TicksPerDay

\* count(*) where last_visit >= lastWeek
CountSince_Midnight(table, lastWeek) ==
    Cardinality({v \in table : DateOf(v.lastVisit) > DateOf(lastWeek)})

CountSince(table, lastWeek) == Cardinality({v \in table : v.lastVisit >= lastWeek})

\* where <field> IS NOT NULL
NotNull_All(table, field) == table

NotNull(table, field) == {v \in table : v[field] # Null}

Entry(field, value, count) ==
    [f \in {field, "count"} |-> IF f = "count" THEN count ELSE value]

\* groupBy(<field>) with count(*)
Groups(table, field) ==
    {Entry(field, value, Cardinality({v \in table : v[field] = value}))
       : value \in {v[field] : v \in table}}

\* orderBy(desc(count(*))): every order of the groups with the counts not
\* increasing; the store leaves the order of groups of equal count open
RECURSIVE ByCountDesc(_)
ByCountDesc(groups) ==
    IF groups = {} THEN {<< >>}
    ELSE UNION {{<<g>> \o rest : rest \in ByCountDesc(groups \ {g})}
                  : g \in {g \in groups : \A h \in groups : h.count <= g.count}}

\* limit(n)
Limit(rows, n) == SubSeq(rows, 1, IF Len(rows) < n THEN Len(rows) ELSE n)

\* the rows one breakdown query can return
TopGroups(table, field) ==
    {Limit(rows, TopLimit) : rows \in ByCountDesc(Groups(NotNull(table, field), field))}

\* item.<field> || "Unknown": null and the empty string are falsy
OrUnknown(value) == IF value = Null \/ value = Some("") THEN "Unknown" ELSE value[1]

\* raw.map(item => ({<field>: item.<field> || "Unknown", count: item.count}))
Labelled(raw, field) ==
    [i \in 1..Len(raw) |-> Entry(field, OrUnknown(raw[i][field]), raw[i].count)]

BreakdownFields == {"country", "device", "browser", "os"}

ByName ==
    [country |-> "visitorsByCountry", device |-> "visitorsByDevice",
     browser |-> "visitorsByBrowser", os |-> "visitorsByOs"]

RawName(field) == ByName[field] \o "Raw"

\* the object getVisitorStats returns
StatsReturned(stats) ==
    [f \in {"totalVisitors", "uniqueVisitors", "todayVisitors", "lastWeekVisitors",
             "visitorsByCountry", "visitorsByDevice", "visitorsByBrowser", "visitorsByOs"}
        |-> stats[f]]

\* stored visitor tables the statistics are computed from: rows as the
\* visitors columns admit them (isUnique is a boolean column that no storage
\* operation sets to false; country is any text, the empty string included)
StatsStart == WeekDays * TicksPerDay

Countries == <<"US", "DE", "FR", "GB", "ID", "JP", "BR", "IN", "CA", "AU", "NL">>

ExampleVisitors ==
    {VisitorRow(1, [ipAddress |-> Some("10.0.0.1"), country |-> Some("US")], StatsStart),
     VisitorRow(2, [ipAddress |-> Some("10.0.0.2"), country |-> Some("US")], 1),
     VisitorRow(3, [ipAddress |-> Some("10.0.0.3"), country |-> Some("DE")], 0)}

MixedVisitors ==
    {VisitorRow(1, [ipAddress |-> Some("10.0.0.1"), country |-> Some("US"),
                    device |-> Some("mobile"), browser |-> Some("Chrome"),
                    os |-> Some("Linux")], StatsStart),
     VisitorRow(2, [ipAddress |-> Some("10.0.0.2"), device |-> Some("desktop"),
                    browser |-> Some("Chrome"), isUnique |-> FALSE, visitCount |-> 2,
                    firstVisit |-> 0], StatsStart - 1),
     VisitorRow(3, [country |-> Some(""), device |-> Some("mobile")], 1),
     VisitorRow(4, [ipAddress |-> Some("10.0.0.3"), country |-> Some("Unknown"),
                    browser |-> Some("Firefox"), isUnique |-> FALSE], 0)}

\* more countries than one breakdown returns: TopLimit, TopLimit - 1, ..., 2, 1, 1 rows
ManyCountries ==
    UNION {{VisitorRow(TopLimit * (i - 1) + j, [country |-> Some(Countries[i])], 0)
              : j \in 1..(IF i > TopLimit THEN 1 ELSE TopLimit + 1 - i)}
             : i \in 1..Len(Countries)}

StatsTables == {{}, ExampleVisitors, MixedVisitors, ManyCountries}

StatsInit ==
    /\ pc = [r \in Slots |-> "idle"]
    /\ args = [r \in Slots |-> Idle]
    /\ loc = [r \in Slots |-> NoLocals]
    /\ resp = [r \in Slots |-> NoReply]
    /\ started = 0
    /\ now = StatsStart
    /\ onArrival = [r \in Slots |-> NothingMet]
    /\ sightings = << >>
    /\ users = {SeedUser(TRUE)} /\ messages = {SeedMessage}
    /\ visitors \in StatsTables
    /\ nextUserId = 2 /\ nextMessageId = 2 /\ nextVisitorId = 200
    /\ plain = (1 :> "secret1")

StatsBegin(r) ==
    /\ Free(r)
    /\ Enter(r, [route |-> "stats"], "stats_total")
    /\ resp' = [resp EXCEPT ![r] = NoReply]
    /\ UNCHANGED <<db, serials, plain, sightings>>

\* one awaited query of getVisitorStats and the constants computed from it
StatsQuery(r, position, locals, next) ==
    /\ pc[r] = position
    /\ loc' = [loc EXCEPT ![r].stats = locals @@ @]
    /\ Goto(r, next)
    /\ UNCHANGED <<db, serials, now, args, started, onArrival, plain, sightings>>

StatsTotal_MarksSeen(r) ==
    /\ pc[r] = "stats_total"
    /\ loc' = [loc EXCEPT ![r].stats = [totalVisitors |-> Cardinality(visitors)] @@ @]
    /\ visitors' = {[v EXCEPT !.isUnique = FALSE] : v \in visitors}
    /\ Goto(r, "stats_unique")
    /\ UNCHANGED <<users, messages, serials, now, args, started, onArrival, plain, sightings>>

StatsTotal(r) ==
    StatsQuery(r, "stats_total", [totalVisitors |-> Cardinality(visitors)], "stats_unique")

\* the unique count, then "today" is built before the next query is awaited
StatsUnique(r) ==
    StatsQuery(r, "stats_unique",
               [uniqueVisitors |-> CountUnique(visitors),
                today |-> DateOf(now) * TicksPerDay], "stats_today")

\* the query compares with CURRENT_DATE as the store reads it; "lastWeek" is
\* built from the clock before the next query is awaited
StatsToday(r) ==
    StatsQuery(r, "stats_today",
               [todayVisitors |-> CountToday(visitors, now),
                lastWeek |-> LastWeek(now)], "stats_week")

\* the query carries the lastWeek built before it was issued
StatsLastWeek(r) ==
    StatsQuery(r, "stats_week",
               [lastWeekVisitors |-> CountSince(visitors, loc[r].stats.lastWeek)],
               "stats_country")

StatsBreakdown(r, position, field, next) ==
    \E raw \in TopGroups(visitors, field) :
        StatsQuery(r, position,
                   (RawName(field) :> raw) @@ (ByName[field] :> Labelled(raw, field)), next)

StatsCountry(r) == StatsBreakdown(r, "stats_country", "country", "stats_device")

StatsDevice(r) == StatsBreakdown(r, "stats_device", "device", "stats_browser")

StatsBrowser(r) == StatsBreakdown(r, "stats_browser", "browser", "stats_os")

StatsOs(r) == StatsBreakdown(r, "stats_os", "os", "stats_return")

StatsReturn(r) ==
    /\ pc[r] = "stats_return"
    /\ loc' = [loc EXCEPT ![r].result = Some(StatsReturned(loc[r].stats))]
    /\ pc' = [pc EXCEPT ![r] = "done"]
    /\ UNCHANGED <<db, serials, now, args, resp, started, onArrival, plain, sightings>>

StatsNext ==
    \/ \E r \in Slots : StatsBegin(r)
    \/ \E r \in Slots : StatsTotal(r)
    \/ \E r \in Slots : StatsUnique(r)
    \/ \E r \in Slots : StatsToday(r)
    \/ \E r \in Slots : StatsLastWeek(r)
    \/ \E r \in Slots : StatsCountry(r)
    \/ \E r \in Slots : StatsDevice(r)
    \/ \E r \in Slots : StatsBrowser(r)
    \/ \E r \in Slots : StatsOs(r)
    \/ \E r \in Slots : StatsReturn(r)

StatsSpec == StatsInit /\ [][StatsNext]_vars

(***************************************************************************)
(* The visitor operations of the storage called directly (storage.ts       *)
(* 169-175, 199-210) next to getVisitorStats.  A call builds its statement *)
(* and awaits it: the statement runs in a later step, other calls may run  *)
(* in between.                                                             *)
(***************************************************************************)
VisitorIds == {1, 2, 5}

VisitorData ==
    {<< >>,
     [country |-> Some("FR")],
     [country |-> Null, device |-> Some("tablet")],
     [ipAddress |-> Some("10.0.0.9"), city |-> Some("Paris")]}

\* update(visitors).set(..).where(eq(visitors.id, id))
UpdateVisitorRows(table, id, visitorData, t) ==
    {IF v.id = id THEN UpdateVisitor(v, visitorData, t) ELSE v : v \in table}

\* createVisitor is called: the insert is issued
CreateVisitorCall(r, insertVisitor) ==
    /\ Free(r)
    /\ Enter(r, [route |-> "createVisitor", insertVisitor |-> insertVisitor],
             "createVisitor_stmt")
    /\ resp' = [resp EXCEPT ![r] = NoReply]
    /\ UNCHANGED <<db, serials, plain, sightings>>

\* the insert runs: firstVisit and lastVisit are the store's defaultNow()
CreateVisitorInsert(r) ==
    /\ pc[r] = "createVisitor_stmt"
    /\ LET visitor == CreateVisitor(args[r].insertVisitor, nextVisitorId, now)
       IN  /\ visitors' = visitors \cup {visitor}
           /\ loc' = [loc EXCEPT ![r].result = Some(visitor)]
    /\ nextVisitorId' = nextVisitorId + 1
    /\ Goto(r, "done")
    /\ UNCHANGED <<users, messages, nextUserId, nextMessageId, now, args, started, onArrival,
                   plain, sightings>>

\* updateVisitor is called: the update is issued with lastVisit: new Date()
UpdateVisitorCall(r, id, visitorData) ==
    /\ Free(r)
    /\ EnterWith(r, [route |-> "updateVisitor", id |-> id, visitorData |-> visitorData],
                 "updateVisitor_stmt", [NoLocals EXCEPT !.date = Some(now')])
    /\ resp' = [resp EXCEPT ![r] = NoReply]
    /\ UNCHANGED <<db, serials, plain, sightings>>

\* the update runs: visit_count + 1 is computed by the store; the call
\* returns the row the statement returned, none when no row has the id
UpdateVisitorStatement(r) ==
    /\ pc[r] = "updateVisitor_stmt"
    /\ LET id == args[r].id
       IN  /\ visitors' = UpdateVisitorRows(visitors, id, args[r].visitorData, loc[r].date[1])
           /\ loc' = [loc EXCEPT ![r].result = First({v \in visitors' : v.id = id})]
           /\ sightings' = IF \E v \in visitors : v.id = id
                              THEN IF id \in DOMAIN sightings
                                     THEN [sightings EXCEPT ![id] = @ + 1]
                                     ELSE (id :> 1) @@ sightings
                              ELSE sightings
    /\ Goto(r, "done")
    /\ UNCHANGED <<users, messages, serials, now, args, started, onArrival, plain>>

VisitorStoreNext ==
    \/ \E r \in Slots, insertVisitor \in Observations : CreateVisitorCall(r, insertVisitor)
    \/ \E r \in Slots : CreateVisitorInsert(r)
    \/ \E r \in Slots, id \in VisitorIds, visitorData \in VisitorData :
         UpdateVisitorCall(r, id, visitorData)
    \/ \E r \in Slots : UpdateVisitorStatement(r)
    \/ StatsNext

VisitorStoreSpec == Init /\ [][VisitorStoreNext]_vars

(***************************************************************************)
(* getVisitorStats while visits are being recorded: its eight queries are  *)
(* separate statements, no transaction holds them together.                *)
(***************************************************************************)
LiveStatsNext == StatsNext \/ VisitNext

LiveStatsSpec == Init /\ [][LiveStatsNext]_vars

(***************************************************************************)
(* Steps of the request in slot r.                                         *)
(***************************************************************************)
Arrives(r) == started' # started /\ Free(r)
Steps(r) == Arrives(r) \/ (Running(r) /\ pc'[r] # pc[r])

Done(r, route) == pc[r] = "done" /\ args[r].route = route

Matches(u, password) == HashPassword(password, u.salt) = u.password

(***************************************************************************)
(* C1: when createUser succeeds for (username, email, password), verifyUser *)
(* with that username and password returns the created user, and with any  *)
(* other password it returns null.                                         *)
(***************************************************************************)
C1_RoundTripStep ==
    \A r \in Slots :
        (pc[r] = "register_create" /\ Steps(r) /\ loc'[r].user # Null) =>
            /\ VerifyUser(users', args[r].username, args[r].password) = loc'[r].user
            /\ loc'[r].user[1] \in users'
            /\ \A p2 \in Passwords \ {args[r].password} :
                 VerifyUser(users', args[r].username, p2) = Null

C1_CreateThenVerify == [][C1_RoundTripStep]_vars

C1_Witness ==
    \E r \in Slots :
        /\ Done(r, "register") /\ resp[r].status = 201
        /\ VerifyUser(users, args[r].username, args[r].password) = loc[r].user

(***************************************************************************)
(* C2: verifyUser returns a user exactly when a user with that username    *)
(* exists, is active and the password hashes with the stored salt to the   *)
(* stored hash; otherwise it returns null, and the call changes no stored  *)
(* state.                                                                  *)
(***************************************************************************)
C2_Result ==
    \A username \in Usernames, password \in Passwords :
        LET user == VerifyUser(users, username, password)
        IN  /\ user # Null <=>
                 \E u \in users : u.username = username /\ u.isActive /\ Matches(u, password)
            /\ user # Null =>
                 /\ user[1] \in users
                 /\ user[1].username = username
                 /\ user[1].isActive
                 /\ Matches(user[1], password)

C2_ReadOnlyStep ==
    \A r \in Slots :
        (pc[r] = "login_verify" /\ Steps(r)) =>
            /\ UNCHANGED <<db, serials>>
            /\ loc'[r].error = ""
            /\ LET user == VerifyUser(users, args[r].username, args[r].password)
               IN  IF user = Null THEN pc'[r] = "done" /\ resp'[r].status = 401
                   ELSE loc'[r].user = user

C2_VerifyUserIff == []C2_Result /\ [][C2_ReadOnlyStep]_vars

\* a login with the right password of a deactivated user was rejected
C2_Witness ==
    \E r \in Slots :
        /\ Done(r, "login") /\ resp[r].status = 401
        /\ \E u \in users : u.username = args[r].username /\ ~u.isActive
                            /\ Matches(u, args[r].password)

(***************************************************************************)
(* C4: no two stored users share a username and no two share an email,     *)
(* whatever the interleaving of the registration requests.                 *)
(***************************************************************************)
C4_UniqueUsers ==
    \A u \in users, v \in users :
        u # v => u.username # v.username /\ u.email # v.email /\ u.id # v.id

\* two registrations passed the existence checks and one insert was rejected
C4_Witness ==
    \E r \in Slots, q \in Slots :
        /\ Done(r, "register") /\ resp[r].status = 201
        /\ Done(q, "register") /\ loc[q].error = "unique_violation"
        /\ ~onArrival[q].username /\ ~onArrival[q].email

(***************************************************************************)
(* C7: every stored password is the hash of the user's plaintext with the  *)
(* stored salt, never the plaintext, and no response of register, login or *)
(* the admin listing carries a password or salt field.                     *)
(***************************************************************************)
Sensitive == {"password", "salt"}

C7_NoPlaintext ==
    /\ \A u \in users :
         /\ u.password = HashPassword(plain[u.id], u.salt)
         /\ u.password # plain[u.id]
         /\ u.password \notin Passwords
    /\ \A r \in Slots :
         /\ "user" \in DOMAIN resp[r] => DOMAIN resp[r].user \cap Sensitive = {}
         /\ "users" \in DOMAIN resp[r] =>
               \A i \in DOMAIN resp[r].users : DOMAIN resp[r].users[i] \cap Sensitive = {}

\* the admin listing was answered after a registration stored a second user
C7_Witness ==
    \E r \in Slots :
        /\ Done(r, "admin-users") /\ Len(resp[r].users) = 2
        /\ \E u \in users : u.id = 2 /\ u.password = HashPassword(plain[2], u.salt)

(***************************************************************************)
(* C3: logins that pass validation and fail for different reasons (unknown *)
(* username, deactivated account, wrong password) get the same response,   *)
(* status 401, and a login that does not succeed leaves the stored state   *)
(* as it was.                                                              *)
(***************************************************************************)
Rejected(r) ==
    /\ Done(r, "login")
    /\ LoginIssues(args[r].username, args[r].password) = <<>>
    /\ resp[r].status # 200

C3_SameReply ==
    \A r \in Slots, q \in Slots :
        (Rejected(r) /\ Rejected(q)) =>
            /\ resp[r] = resp[q]
            /\ resp[r].status = 401
            /\ DOMAIN resp[r] = {"status", "success", "message"}

C3_NoTraceStep ==
    \A r \in Slots :
        (Steps(r) /\ args'[r].route = "login"
           /\ ~(pc'[r] = "done" /\ resp'[r].status = 200)) =>
            UNCHANGED <<db, serials>>

C3_LoginIndistinguishable == []C3_SameReply /\ [][C3_NoTraceStep]_vars

Unknown(r) == \A u \in users : u.username # args[r].username
Inactive(r) == \E u \in users : u.username = args[r].username /\ ~u.isActive
WrongPassword(r) ==
    \E u \in users : u.username = args[r].username /\ u.isActive
                     /\ ~Matches(u, args[r].password)

\* two rejected logins side by side, rejected for different reasons
C3_Witness ==
    \E r \in Slots, q \in Slots :
        /\ Rejected(r) /\ Rejected(q)
        /\ \/ Unknown(r) /\ Inactive(q)
           \/ Unknown(r) /\ WrongPassword(q)

(***************************************************************************)
(* C5: a registration with all three fields whose username, or else whose  *)
(* email, is already stored creates no user and is answered with a         *)
(* conflict that differs from the answer to missing fields.                *)
(***************************************************************************)
Conflicts == {UsernameTaken, EmailTaken}

C5_ConflictOnDuplicate ==
    \A r \in Slots :
        (args[r].route = "register" /\ (onArrival[r].username \/ onArrival[r].email)
           /\ args[r].username # "" /\ args[r].email # "" /\ args[r].password # "") =>
            /\ pc[r] # "register_create"
            /\ loc[r].user = Null
            /\ pc[r] = "done" =>
                 /\ resp[r] \in Conflicts
                 /\ resp[r] # RegisterMissing
                 /\ onArrival[r].username => resp[r] = UsernameTaken

\* both conflicts were answered: a taken username, and a free username with a
\* taken email
C5_Witness ==
    \E r \in Slots, q \in Slots :
        /\ Done(r, "register") /\ onArrival[r].username /\ resp[r] = UsernameTaken
        /\ Done(q, "register") /\ ~onArrival[q].username /\ onArrival[q].email
        /\ resp[q] = EmailTaken

(***************************************************************************)
(* C6: of two concurrent registrations with the same username or the same  *)
(* email exactly one creates a user, and the other is answered with the    *)
(* duplicate conflict, not with the generic failure.                       *)
(***************************************************************************)
SameKey(r, q) ==
    args[r].username = args[q].username \/ args[r].email = args[q].email

Raced(r, q) ==
    /\ r # q /\ Done(r, "register") /\ Done(q, "register")
    /\ ~onArrival[r].username /\ ~onArrival[r].email
    /\ ~onArrival[q].username /\ ~onArrival[q].email
    /\ resp[r] # RegisterMissing /\ resp[q] # RegisterMissing
    /\ SameKey(r, q)

C6_RaceLoserGetsConflict ==
    \A r \in Slots, q \in Slots :
        (Raced(r, q) /\ resp[r].status = 201) =>
            /\ resp[q].status # 201
            /\ resp[q] \in Conflicts

\* C6, the part the code keeps: exactly one of the two creates a user
C6_ExactlyOneCreated ==
    \A r \in Slots, q \in Slots :
        Raced(r, q) => (resp[r].status = 201) # (resp[q].status = 201)

\* both passed the existence checks, one insert was rejected and answered 500
C6_Witness ==
    \E r \in Slots, q \in Slots :
        /\ Raced(r, q) /\ resp[r].status = 201
        /\ loc[q].error = "unique_violation" /\ resp[q] = RegisterFailed

(***************************************************************************)
(* C8: updateUserPassword for an id that no user has returns false, raises *)
(* nothing and changes no stored row.                                      *)
(***************************************************************************)
C8_MissingUserStep ==
    \A r \in Slots :
        (pc[r] = "password_find" /\ Steps(r)
           /\ \A u \in users : u.id # args[r].userId) =>
            /\ loc'[r].result = Some(FALSE)
            /\ loc'[r].error = ""
            /\ pc'[r] = "done"
            /\ resp'[r] = UserNotFound
            /\ UNCHANGED <<db, serials, plain, sightings>>

C8_MissingUserReturnsFalse == [][C8_MissingUserStep]_vars

C8_Witness ==
    \E r \in Slots :
        /\ Done(r, "update-password") /\ loc[r].result = Some(FALSE)
        /\ \A u \in users : u.id # args[r].userId
        /\ users # {} /\ messages # {} /\ visitors # {}

(***************************************************************************)
(* C9: when updateUserPassword returns true for an active user, verifyUser *)
(* succeeds with the new password and fails with the previous one if it    *)
(* differs; the one update changes that user's hash and salt and nothing   *)
(* else.                                                                   *)
(***************************************************************************)
C9_UpdateStep ==
    \A r \in Slots :
        (pc[r] = "password_write" /\ Steps(r)) =>
            LET id == args[r].userId
                old == CHOOSE u \in users : u.id = id
                new == CHOOSE u \in users' : u.id = id
                previous == plain[id]
            IN  /\ loc'[r].result = Some(TRUE)
                /\ new = [old EXCEPT !.password = new.password, !.salt = new.salt]
                /\ new.password = HashPassword(args[r].newPassword, new.salt)
                /\ users' \ {new} = users \ {old}
                /\ UNCHANGED <<messages, visitors, serials>>
                /\ old.isActive =>
                     /\ VerifyUser(users', old.username, args[r].newPassword) = Some(new)
                     /\ previous # args[r].newPassword =>
                          VerifyUser(users', old.username, previous) = Null

C9_UpdateThenVerify == [][C9_UpdateStep]_vars

\* an active user's password was replaced by a different one under a new salt
C9_Witness ==
    \E r \in Slots :
        /\ Done(r, "update-password") /\ loc[r].result = Some(TRUE)
        /\ \E u \in users :
             /\ u.id = args[r].userId /\ u.isActive /\ u.id = 1
             /\ u.salt = "s2" /\ plain[1] = "secret2"
             /\ VerifyUser(users, u.username, "secret2") = Some(u)
             /\ VerifyUser(users, u.username, "secret1") = Null

(***************************************************************************)
(* C10: RecordVisit for an IP address that no stored visitor has goes on   *)
(* to createVisitor, which adds exactly one row with visitCount 1,         *)
(* isUnique true, firstVisit = lastVisit = the current time, the given     *)
(* descriptive columns and null in the others.                             *)
(***************************************************************************)
C10_FirstVisitStep ==
    \A r \in Slots :
        LET observation == args[r].observation
            known == \E v \in visitors : v.ipAddress = observation.ipAddress
        IN  /\ (pc[r] = "visit_lookup" /\ Steps(r) /\ ~known) => pc'[r] = "visit_create"
            /\ (pc[r] = "visit_create" /\ Steps(r) /\ ~known) =>
                 /\ Cardinality(visitors') = Cardinality(visitors) + 1
                 /\ visitors \subseteq visitors'
                 /\ \E row \in visitors' \ visitors :
                      /\ loc'[r].visitor = Some(row)
                      /\ row.visitCount = 1
                      /\ row.isUnique = TRUE
                      /\ row.firstVisit = now /\ row.lastVisit = now
                      /\ \A v \in visitors : v.id # row.id
                      /\ \A f \in VisitorColumns :
                           row[f] = IF f \in DOMAIN observation THEN observation[f] ELSE Null

C10_NewIpAddsOneRow == [][C10_FirstVisitStep]_vars

\* a first visit from a new address was stored beside an older row
C10_Witness ==
    \E r \in Slots :
        /\ Done(r, "visit") /\ loc[r].visitor # Null
        /\ loc[r].visitor[1] \in visitors
        /\ loc[r].visitor[1].visitCount = 1
        /\ loc[r].visitor[1].ipAddress = Some("10.0.0.2")
        /\ loc[r].visitor[1].country = Some("US")
        /\ loc[r].visitor[1].device = Null
        /\ loc[r].visitor[1].firstVisit > 0
        /\ Cardinality(visitors) = 2

(***************************************************************************)
(* C11: a RecordVisit for an IP address that has a row goes on to          *)
(* updateVisitor, which keeps the number of rows, adds exactly 1 to that   *)
(* row's visitCount and keeps its isUnique; a row updated k times since    *)
(* its first sighting has visitCount 1 + k.                                *)
(***************************************************************************)
Sightings(id) == IF id \in DOMAIN sightings THEN sightings[id] ELSE 0

C11_CountIsSightings ==
    \A v \in visitors : v.visitCount = 1 + Sightings(v.id)

C11_RepeatVisitStep ==
    \A r \in Slots :
        /\ (pc[r] = "visit_lookup" /\ Steps(r)
              /\ VisitorsByIp(visitors, args[r].observation.ipAddress) # {}) =>
                /\ pc'[r] = "visit_update"
                /\ loc'[r].visitor # Null
                /\ loc'[r].visitor[1] \in visitors
                /\ loc'[r].visitor[1].ipAddress = args[r].observation.ipAddress
        /\ (pc[r] = "visit_update" /\ Steps(r)) =>
              LET id == loc[r].visitor[1].id
                  old == CHOOSE v \in visitors : v.id = id
                  new == CHOOSE v \in visitors' : v.id = id
              IN  /\ Cardinality(visitors') = Cardinality(visitors)
                  /\ new.visitCount = old.visitCount + 1
                  /\ new.isUnique = old.isUnique
                  /\ visitors' \ {new} = visitors \ {old}

C11_RepeatVisitCounts == []C11_CountIsSightings /\ [][C11_RepeatVisitStep]_vars

\* the stored row of a known address was visited again twice, one after the other
C11_Witness ==
    \E v \in visitors :
        /\ v.ipAddress = Some("10.0.0.1") /\ v.visitCount = 3 /\ Sightings(v.id) = 2
        /\ Cardinality(visitors) = 1
        /\ \E r \in Slots : Done(r, "visit") /\ loc[r].visitor # Null
                            /\ loc[r].visitor[1].visitCount = 2

(***************************************************************************)
(* C12: at most one visitor row exists for each non-null IP address,       *)
(* whatever the interleaving of the RecordVisit calls.                     *)
(***************************************************************************)
C12_OneRowPerIp ==
    \A v \in visitors, w \in visitors :
        (v # w /\ v.ipAddress # Null) => v.ipAddress # w.ipAddress

(***************************************************************************)
(* C13: two RecordVisit calls for the same stored IP address that both     *)
(* look the row up at visitCount N before either updates it, once both     *)
(* have completed.  As claimed: the row is left at N + 1 (an increment is  *)
(* lost).  As the code does it, incrementing in the store: N + 2.          *)
(***************************************************************************)
BothRead(r, q) ==
    /\ r # q /\ Done(r, "visit") /\ Done(q, "visit")
    /\ loc[r].visitor # Null /\ loc[q].visitor # Null
    /\ loc[r].result # Null /\ loc[q].result # Null
    /\ loc[r].visitor[1].id = loc[q].visitor[1].id
    /\ loc[r].visitor[1].visitCount = loc[q].visitor[1].visitCount

StoredCount(id) == (CHOOSE v \in visitors : v.id = id).visitCount

C13_BothReadThenLost ==
    \A r \in Slots, q \in Slots :
        BothRead(r, q) =>
            StoredCount(loc[r].visitor[1].id) = loc[r].visitor[1].visitCount + 1

C13_BothReadBothCounted ==
    \A r \in Slots, q \in Slots :
        BothRead(r, q) =>
            /\ StoredCount(loc[r].visitor[1].id) = loc[r].visitor[1].visitCount + 2
            /\ {loc[r].result[1].visitCount, loc[q].result[1].visitCount}
                 = {loc[r].visitor[1].visitCount + 1, loc[r].visitor[1].visitCount + 2}

C13_Witness ==
    \E r \in Slots, q \in Slots :
        /\ BothRead(r, q)
        /\ loc[r].visitor[1].visitCount = 1
        /\ StoredCount(loc[r].visitor[1].id) = 3

(***************************************************************************)
(* C14: getVisitorStats on a table nobody writes returns totalVisitors =   *)
(* the number of visitor rows and uniqueVisitors = the number of rows      *)
(* whose isUnique is true (both 0 for the empty table).                    *)
(***************************************************************************)
Returned(r) == loc[r].result[1]

C14_TotalsMatchRows ==
    \A r \in Slots :
        /\ "totalVisitors" \in DOMAIN loc[r].stats =>
              loc[r].stats.totalVisitors = Cardinality(visitors)
        /\ "uniqueVisitors" \in DOMAIN loc[r].stats =>
              loc[r].stats.uniqueVisitors
                = Cardinality(visitors) - Cardinality({v \in visitors : ~v.isUnique})
        /\ Done(r, "stats") =>
              /\ Returned(r).totalVisitors = Cardinality(visitors)
              /\ Returned(r).uniqueVisitors
                   = Cardinality(visitors) - Cardinality({v \in visitors : ~v.isUnique})
              /\ visitors = {} =>
                   Returned(r).totalVisitors = 0 /\ Returned(r).uniqueVisitors = 0

\* four rows, two of them unique
C14_Witness ==
    \E r \in Slots :
        /\ Done(r, "stats") /\ visitors = MixedVisitors
        /\ Returned(r).totalVisitors = 4 /\ Returned(r).uniqueVisitors = 2

(***************************************************************************)
(* C15: in each of the four breakdowns no entry stands for the rows whose  *)
(* grouped field is null, there are at most 10 entries, the counts do not  *)
(* increase along the list, and no value left out has a count greater than *)
(* a returned one (nothing is left out while at most 10 values exist).     *)
(***************************************************************************)
RowsWith(field, value) == {v \in visitors : v[field] = value}

C15_BreakdownOf(raw, by, field) ==
    /\ Len(by) = Len(raw) /\ Len(by) <= TopLimit
    /\ \A i \in 1..Len(raw) :
          /\ raw[i][field] # Null
          /\ raw[i].count = Cardinality(RowsWith(field, raw[i][field]))
          /\ by[i].count = raw[i].count
    /\ \A i \in 1..Len(by), j \in 1..Len(by) : i < j => by[i].count >= by[j].count
    /\ \A v \in visitors :
          (v[field] # Null /\ \A i \in 1..Len(raw) : raw[i][field] # v[field]) =>
              /\ Len(raw) = TopLimit
              /\ \A i \in 1..Len(raw) :
                    Cardinality(RowsWith(field, v[field])) <= raw[i].count

C15_BreakdownsTopDescending ==
    \A r \in Slots, field \in BreakdownFields :
        /\ RawName(field) \in DOMAIN loc[r].stats =>
              C15_BreakdownOf(loc[r].stats[RawName(field)], loc[r].stats[ByName[field]], field)
        /\ Done(r, "stats") => Returned(r)[ByName[field]] = loc[r].stats[ByName[field]]

\* eleven countries stored: ten returned, the last with one row; no device known
C15_Witness ==
    \E r \in Slots :
        /\ Done(r, "stats") /\ visitors = ManyCountries
        /\ Len(Returned(r).visitorsByCountry) = TopLimit
        /\ Returned(r).visitorsByCountry[1] = Entry("country", "US", TopLimit)
        /\ Returned(r).visitorsByCountry[TopLimit].count = 1
        /\ Returned(r).visitorsByDevice = << >>

(***************************************************************************)
(* C16: every entry of a returned breakdown has as count the number of     *)
(* rows whose grouped field has the entry's value, no value appears in two *)
(* entries, and visitors from three addresses with countries US, US, DE    *)
(* give visitorsByCountry = [{US,2},{DE,1}].                               *)
(***************************************************************************)
C16_EntriesCountTheirValue ==
    \A r \in Slots :
        Done(r, "stats") =>
            /\ \A field \in BreakdownFields :
                  LET by == Returned(r)[ByName[field]]
                  IN  /\ \A i \in 1..Len(by) :
                            by[i].count = Cardinality(RowsWith(field, Some(by[i][field])))
                      /\ \A i \in 1..Len(by), j \in 1..Len(by) :
                            i # j => by[i][field] # by[j][field]
            /\ visitors = ExampleVisitors =>
                  Returned(r).visitorsByCountry
                    = <<Entry("country", "US", 2), Entry("country", "DE", 1)>>

(***************************************************************************)
(* C17: lastWeekVisitors is the number of rows whose lastVisit is at or    *)
(* after the time of the call minus 7 days: a sliding window, the boundary *)
(* included.                                                               *)
(***************************************************************************)
C17_WeekStep ==
    \A r \in Slots :
        /\ (pc[r] = "stats_today" /\ Steps(r)) =>
              loc'[r].stats.lastWeek = now - WeekDays * TicksPerDay
        /\ (pc[r] = "stats_week" /\ Steps(r)) =>
              loc'[r].stats.lastWeekVisitors
                = Cardinality({v \in visitors : v.lastVisit >= loc[r].stats.lastWeek})

C17_WeekReturned ==
    \A r \in Slots :
        Done(r, "stats") => Returned(r).lastWeekVisitors = loc[r].stats.lastWeekVisitors

C17_SlidingWeek == []C17_WeekReturned /\ [][C17_WeekStep]_vars

\* the row visited exactly 7 days before the call counts, the older one does not
C17_Witness ==
    \E r \in Slots :
        /\ Done(r, "stats") /\ visitors = ExampleVisitors
        /\ \E v \in visitors : v.lastVisit = loc[r].stats.lastWeek
        /\ \E v \in visitors : v.lastVisit < loc[r].stats.lastWeek
        /\ Returned(r).lastWeekVisitors = 2

(***************************************************************************)
(* C18: getVisitorStats is read-only: no step of a call changes a user, a  *)
(* message or a visitor, and a call keeps nothing another call reads.  As  *)
(* claimed: two calls with no write in between return equal results.  As   *)
(* the code does it: they return equal totalVisitors and uniqueVisitors    *)
(* and the same counts along each breakdown; todayVisitors and             *)
(* lastWeekVisitors are equal when both calls built the same lastWeek.     *)
(***************************************************************************)
C18_ReadOnlyStep ==
    \A r \in Slots :
        (Steps(r) /\ args'[r].route = "stats") =>
            /\ UNCHANGED <<db, serials>>
            /\ \A q \in Slots \ {r} :
                  pc'[q] = pc[q] /\ args'[q] = args[q] /\ loc'[q] = loc[q] /\ resp'[q] = resp[q]

BothReturned(r, q) == r # q /\ Done(r, "stats") /\ Done(q, "stats")

C18_EqualResults ==
    \A r \in Slots, q \in Slots : BothReturned(r, q) => Returned(r) = Returned(q)

C18_ReadOnlyEqualResults == []C18_EqualResults /\ [][C18_ReadOnlyStep]_vars

Counts(by) == [i \in 1..Len(by) |-> by[i].count]

C18_EqualWhereTimeless ==
    \A r \in Slots, q \in Slots :
        BothReturned(r, q) =>
            /\ Returned(r).totalVisitors = Returned(q).totalVisitors
            /\ Returned(r).uniqueVisitors = Returned(q).uniqueVisitors
            /\ \A field \in BreakdownFields :
                  Counts(Returned(r)[ByName[field]]) = Counts(Returned(q)[ByName[field]])
            /\ loc[r].stats.lastWeek = loc[q].stats.lastWeek =>
                  /\ Returned(r).todayVisitors = Returned(q).todayVisitors
                  /\ Returned(r).lastWeekVisitors = Returned(q).lastWeekVisitors

C18_ReadOnlyEqualCounts == []C18_EqualWhereTimeless /\ [][C18_ReadOnlyStep]_vars

\* two calls on the same rows, a day boundary between their queries
C18_Witness ==
    \E r \in Slots, q \in Slots :
        /\ BothReturned(r, q) /\ visitors = MixedVisitors
        /\ Returned(r).todayVisitors = 1 /\ Returned(q).todayVisitors = 0
        /\ Returned(r).lastWeekVisitors # Returned(q).lastWeekVisitors
        /\ Returned(r).visitorsByCountry # Returned(q).visitorsByCountry

(***************************************************************************)
(* C19: messages are immutable and users are never deleted: whatever the   *)
(* requests do, every stored message stays stored with all its fields      *)
(* unchanged and every stored user stays stored with the same id, username *)
(* and email.                                                              *)
(***************************************************************************)
C19_KeptStep ==
    /\ \A m \in messages : m \in messages'
    /\ \A u \in users :
          \E w \in users' : w.id = u.id /\ w.username = u.username /\ w.email = u.email
    /\ Cardinality(users') >= Cardinality(users)

C19_MessagesAndUsersKept == [][C19_KeptStep]_vars

\* a message was added next to the stored one, and the stored user logged in
C19_Witness ==
    \E r \in Slots, q \in Slots :
        /\ Done(r, "contact") /\ resp[r].status = 201
        /\ SeedMessage \in messages /\ resp[r].data \in messages
        /\ Cardinality(messages) = 2
        /\ Done(q, "login") /\ resp[q].status = 200
        /\ \E u \in users : u.id = 1 /\ u.username = "alice" /\ u.lastLogin # Null

(***************************************************************************)
(* C20: a request with malformed or missing input (register with an empty  *)
(* username, email or password or a short password; login with a short     *)
(* username or password; password update without userId or with a short    *)
(* new password) is answered with a validation error, and no step of it   *)
(* writes to the store.                                                    *)
(***************************************************************************)
Malformed(request) ==
    CASE request.route = "register" ->
           \/ request.username = "" \/ request.email = ""
           \/ Len(request.password) < MinPasswordLen
      [] request.route = "login" ->
           \/ Len(request.username) < MinUsernameLen
           \/ Len(request.password) < MinPasswordLen
      [] request.route = "update-password" ->
           request.userId = 0 \/ Len(request.newPassword) < MinPasswordLen
      [] OTHER -> FALSE

ValidationError(reply) ==
    /\ reply.status = 400
    /\ reply \notin {UsernameTaken, EmailTaken}

C20_Rejected ==
    \A r \in Slots :
        (Malformed(args[r]) /\ pc[r] = "done") => ValidationError(resp[r])

C20_NoWriteStep ==
    \A r \in Slots :
        (Steps(r) /\ Malformed(args'[r])) => UNCHANGED <<db, serials>>

C20_MalformedRejected == []C20_Rejected /\ [][C20_NoWriteStep]_vars

(***************************************************************************)
(* C21: a register, login or password-update request during which a store  *)
(* call failed is answered with the generic failure (status 500), and the  *)
(* failing step writes nothing.                                            *)
(***************************************************************************)
StoreFailed(r) == loc[r].error = "store_failure"

C21_GenericReply ==
    \A r \in Slots :
        (pc[r] = "done" /\ StoreFailed(r)
           /\ args[r].route \in {"register", "login", "update-password"}) =>
              resp[r].status = 500

C21_FailedStep ==
    \A r \in Slots :
        (Steps(r) /\ loc'[r].error = "store_failure") => UNCHANGED db

C21_StoreFailureIsGeneric == []C21_GenericReply /\ [][C21_FailedStep]_vars

(***************************************************************************)
(* C22: a user's lastLogin changes only in the updateLastLogin step of a   *)
(* login whose verifyUser returned that user: the step sets only lastLogin *)
(* of the user with that id, to the time updateLastLogin was called, which *)
(* is the clock when verifyUser returned; a login reaches the step only    *)
(* from a non-null verifyUser; every other step (failed login,             *)
(* registration, password update) leaves every lastLogin as it was, and a  *)
(* new user starts with lastLogin null.                                    *)
(***************************************************************************)
Stamping(r) == pc[r] = "login_stamp" /\ pc'[r] = "done" /\ users' # users

C22_LastLoginStep ==
    /\ \A u \in users, w \in users' :
          (w.id = u.id /\ w.lastLogin # u.lastLogin) =>
              \E r \in Slots :
                  /\ Stamping(r)
                  /\ loc[r].user[1].id = u.id
                  /\ w = [u EXCEPT !.lastLogin = loc[r].date]
    /\ \A w \in users' : (\A u \in users : u.id # w.id) => w.lastLogin = Null
    /\ \A r \in Slots :
          (pc'[r] = "login_stamp" /\ pc[r] # "login_stamp") =>
              /\ pc[r] = "login_verify"
              /\ VerifyUser(users, args[r].username, args[r].password) # Null
              /\ loc'[r].user = VerifyUser(users, args[r].username, args[r].password)
              /\ loc'[r].date = Some(now)
              /\ UNCHANGED users
    /\ \A r \in Slots :
          Stamping(r) =>
              \A u \in users : u.id # loc[r].user[1].id => u \in users'

C22_LastLoginOnlyByLogin == [][C22_LastLoginStep]_vars

\* one user logged in and is stamped, the other, registered meanwhile, is not
C22_Witness ==
    \E r \in Slots, q \in Slots :
        /\ Done(r, "login") /\ resp[r].status = 200
        /\ Done(q, "register") /\ resp[q].status = 201
        /\ \E u \in users :
              u.username = args[r].username /\ u.lastLogin # Null /\ u.lastLogin = loc[r].date
        /\ \E u \in users : u.username = args[q].username /\ u.lastLogin = Null

(***************************************************************************)
(* C23: updateVisitor(id, data) on a stored row overwrites exactly the     *)
(* descriptive fields given in data, sets lastVisit to the time of the     *)
(* call, adds 1 to visitCount, and keeps the row's id, firstVisit,         *)
(* isUnique and the descriptive fields not given, and every other row;     *)
(* with an id no row has it changes nothing.  The call itself writes       *)
(* nothing: the row changes when the awaited statement runs.               *)
(***************************************************************************)
C23_UpdateStep ==
    \A r \in Slots :
        (pc[r] = "updateVisitor_stmt" /\ Steps(r)) =>
            LET id == args[r].id
                data == args[r].visitorData
            IN  /\ \A v \in visitors :
                      IF v.id = id
                        THEN \E w \in visitors' :
                               /\ w.id = id
                               /\ \A f \in VisitorColumns :
                                     w[f] = IF f \in DOMAIN data THEN data[f] ELSE v[f]
                               /\ w.lastVisit = loc[r].date[1]
                               /\ w.visitCount = v.visitCount + 1
                               /\ w.firstVisit = v.firstVisit
                               /\ w.isUnique = v.isUnique
                        ELSE v \in visitors'
                /\ Cardinality(visitors') = Cardinality(visitors)
                /\ (\A v \in visitors : v.id # id) => visitors' = visitors

\* the time of the call is the clock when updateVisitor was entered
C23_CallStep ==
    \A r \in Slots :
        /\ (Arrives(r) /\ args'[r].route = "updateVisitor") =>
              loc'[r].date = Some(now') /\ visitors' = visitors
        /\ (~Arrives(r) /\ args[r].route = "updateVisitor") => loc'[r].date = loc[r].date

C23_UpdateVisitorFrame == [][C23_UpdateStep /\ C23_CallStep]_vars

\* the stored row got a new country and kept its address
C23_Witness ==
    \E r \in Slots :
        /\ Done(r, "updateVisitor") /\ args[r].visitorData = [country |-> Some("FR")]
        /\ \E v \in visitors :
              /\ v.id = args[r].id /\ v.country = Some("FR")
              /\ v.ipAddress = Some("10.0.0.1")
              /\ v.visitCount = 2 /\ v.firstVisit = 0 /\ v.lastVisit = loc[r].date[1]
              /\ loc[r].result = Some(v)

(***************************************************************************)
(* C26: every visitor row written by createVisitor and updateVisitor has   *)
(* isUnique true, so getVisitorStats run while nobody writes returns       *)
(* uniqueVisitors = totalVisitors, however often visits were repeated.     *)
(***************************************************************************)
C26_RowsUnique ==
    /\ \A v \in visitors : v.isUnique = TRUE
    /\ \A r \in Slots :
          \* rows are only ever added: no row was added since the call began
          (Done(r, "stats") /\ Returned(r).totalVisitors = Cardinality(visitors)) =>
              Returned(r).uniqueVisitors = Returned(r).totalVisitors

C26_UniqueStep ==
    \A r \in Slots :
        (pc[r] = "stats_unique" /\ Steps(r)) =>
            loc'[r].stats.uniqueVisitors = Cardinality(visitors)

C26_AllUnique == []C26_RowsUnique /\ [][C26_UniqueStep]_vars

\* a row visited twice, then counted
C26_Witness ==
    \E r \in Slots :
        /\ Done(r, "stats") /\ Returned(r).uniqueVisitors = 1
        /\ Returned(r).totalVisitors = Cardinality(visitors)
        /\ \E v \in visitors : v.visitCount = 2 /\ Sightings(v.id) = 1 /\ v.isUnique = TRUE

(***************************************************************************)
(* C24: every result getVisitorStats returns is that of one state of the   *)
(* visitor table, also while visits are recorded: uniqueVisitors and       *)
(* lastWeekVisitors are at most totalVisitors, and so is the sum of the    *)
(* counts of each breakdown.                                               *)
(***************************************************************************)
RECURSIVE SumCounts(_)
SumCounts(by) == IF by = << >> THEN 0 ELSE by[1].count + SumCounts(Tail(by))

C24_ResultOfOneState ==
    \A r \in Slots :
        Done(r, "stats") =>
            /\ Returned(r).uniqueVisitors <= Returned(r).totalVisitors
            /\ Returned(r).lastWeekVisitors <= Returned(r).totalVisitors
            /\ \A field \in BreakdownFields :
                  SumCounts(Returned(r)[ByName[field]]) <= Returned(r).totalVisitors

(***************************************************************************)
(* C25: visits are conserved under every interleaving of RecordVisit       *)
(* calls: the visitCounts of the rows written by the calls add up to the   *)
(* number of completed calls (a row stored before counts its earlier       *)
(* visits on top), every visitCount is at least 1, and none ever           *)
(* decreases.                                                              *)
(***************************************************************************)
RECURSIVE SumVisitCount(_)
SumVisitCount(rows) ==
    IF rows = {} THEN 0
    ELSE LET v == CHOOSE v \in rows : TRUE
         IN  v.visitCount + SumVisitCount(rows \ {v})

Completed == started - Cardinality({r \in Slots : Running(r)})

StoredBefore == IF SeedVisitor.id \in {v.id : v \in visitors}
                   /\ \E v \in visitors : v.id = SeedVisitor.id /\ v.firstVisit = 0
                  THEN SeedVisitor.visitCount ELSE 0

C25_SumIsCompleted ==
    /\ SumVisitCount(visitors) = StoredBefore + Completed
    /\ \A v \in visitors : v.visitCount >= 1

C25_NeverDecreases ==
    \A v \in visitors : \E w \in visitors' : w.id = v.id /\ w.visitCount >= v.visitCount

C25_VisitsConserved == []C25_SumIsCompleted /\ [][C25_NeverDecreases]_vars

\* two calls for one new address, both completed: one created, one updated,
\* or both created a row
C25_Witness ==
    /\ started = 2 /\ Completed = 2 /\ StoredBefore = 0
    /\ \E v \in visitors : v.visitCount = 2 /\ v.ipAddress = Some("10.0.0.2")
    /\ SumVisitCount(visitors) = 2

(***************************************************************************)
(* C27: a user created by a successful registration can log in: a login    *)
(* with the username and the password the registration accepted is not     *)
(* answered with a validation error nor with an authentication failure,    *)
(* but with success.                                                       *)
(***************************************************************************)
Registered(username, password) ==
    \E u \in users :
        /\ u.createdAt > 0
        /\ u.username = username
        /\ plain[u.id] = password

C27_LoginStep ==
    \A r \in Slots :
        /\ (Arrives(r) /\ args'[r].route = "login"
              /\ Registered(args'[r].username, args'[r].password)) =>
                pc'[r] = "login_verify"
        /\ (pc[r] = "login_verify" /\ Steps(r)
              /\ Registered(args[r].username, args[r].password)) =>
                pc'[r] = "login_stamp"
        /\ (pc[r] = "login_stamp" /\ Steps(r)) => resp'[r].status = 200

C27_RegisteredCanLogin == [][C27_LoginStep]_vars

(***************************************************************************)
(* C28: on rows none of which was visited after the current time,          *)
(* getVisitorStats run while nobody writes returns todayVisitors <=        *)
(* lastWeekVisitors <= totalVisitors, todayVisitors being the number of    *)
(* rows whose lastVisit falls on the current calendar date.                *)
(***************************************************************************)
C28_Ordered ==
    \A r \in Slots :
        (Done(r, "stats") /\ \A v \in visitors : v.lastVisit <= now) =>
            /\ Returned(r).todayVisitors <= Returned(r).lastWeekVisitors
            /\ Returned(r).lastWeekVisitors <= Returned(r).totalVisitors
            /\ Returned(r).todayVisitors = loc[r].stats.todayVisitors

C28_TodayStep ==
    \A r \in Slots :
        (pc[r] = "stats_today" /\ Steps(r)) =>
            loc'[r].stats.todayVisitors
              = Cardinality({v \in visitors : DateOf(v.lastVisit) = DateOf(now)})

C28_TodayWithinWeek == []C28_Ordered /\ [][C28_TodayStep]_vars

\* one row visited today, one more within the week, one older
C28_Witness ==
    \E r \in Slots :
        /\ Done(r, "stats") /\ visitors = ExampleVisitors
        /\ Returned(r).todayVisitors = 1
        /\ Returned(r).lastWeekVisitors = 2
        /\ Returned(r).totalVisitors = 3

====
